---- MODULE Spec2Model ----
(***************************************************************************)
(* Model of the WGAN training notebook (src/WGAN.ipynb): the weight clip   *)
(* constraint, the Wasserstein loss, the sample generators and the         *)
(* adversarial training loop train().                                      *)
(*                                                                         *)
(* Weights are integers in units of 2.5e-4, the nearest unit to the real  *)
(* weight: the clip value 0.005 is 20 units and one RMSprop step (at most  *)
(* 1.581e-4 = 0.632 units) moves the nearest unit by at most one.          *)
(* Each parameter group of the                                             *)
(* networks is represented by one weight value:                            *)
(*   "conv"  the Conv2D kernels of the Critic (all carry ClipConstraint)   *)
(*   "dense" the kernel of the Critic's final Dense(1) projection          *)
(*   "bn"    the Critic's BatchNormalization parameters                    *)
(*   "gen"   the Generator's parameters                                    *)
(* A gradient step moves each parameter group it trains by its own step,  *)
(* a nondeterministic choice bounded by the RMSprop step bound.            *)
(*                                                                         *)
(* Which variables c_model.train_on_batch trains depends on the Keras      *)
(* build: standalone Keras collects the trainable weights at compile time  *)
(* (before define_wgan freezes the layers), while tf.keras reads them when *)
(* the train function is first traced (after the freeze).  The variable    *)
(* kernelsTrainable is this choice.                                        *)
(***************************************************************************)
EXTENDS Integers, Sequences, FiniteSets, TLC

\* ClipConstraint(0.005) in define_critic, in units of 2.5e-4
ClipValue == 20

\* ---- bounds of the model ----
MaxN == 3
MaxK == 2
MaxE == 2

\* batch sizes tried: an even and an odd one
BatchSizes == {2, 3}

\* one RMSprop(lr=0.00005, rho=0.9) step of a parameter,
\* lr * g / (sqrt(a) + eps) with a >= 0.1 g^2, is at most
\* lr / sqrt(0.1) = 1.581e-4 = 0.632 units, possibly 0, in either direction:
\* it moves the nearest unit of the weight by at most one
MaxStep == 1
Deltas == -MaxStep..MaxStep

\* representative initial values: RandomNormal(stddev=0.02) kernels,
\* glorot_uniform Dense(1) kernel (limit sqrt(6/1601) ~ 0.061)
InitConv == {-80, 12}
InitDense == {-244}

Params == {"conv", "dense", "bn", "gen"}

\* clip with the lower bound forgotten
ClipConstraintUpperOnly(w, clip_value) ==
    IF w > clip_value THEN clip_value ELSE w

\* ClipConstraint.__call__: backend.clip(weights, -clip_value, clip_value)
ClipConstraint(w, clip_value) ==
    IF w < -clip_value THEN -clip_value
    ELSE IF w > clip_value THEN clip_value
    ELSE w

\* parameters that carry kernel_constraint=const in define_critic
Constrained == {"conv"}

\* train_on_batch's optimizer step: each trained parameter group p moves
\* by its own step d[p], then the layer's constraint (if any) is applied
TrainOnBatch(w, trainable, d) ==
    [p \in Params |->
        IF p \in trainable
        THEN IF p \in Constrained THEN ClipConstraint(w[p] + d[p], ClipValue)
                                  ELSE w[p] + d[p]
        ELSE w[p]]

VARIABLES
    N, B, K, E,          \* dataset.shape[0], n_batch, n_critic, n_epochs
    kernelsTrainable,    \* Keras build: does c_model train its conv/dense kernels
    w,                   \* parameter values
    pc,                  \* position in train()
    i,                   \* loop index of train()
    sub,                 \* completed critic sub-steps of the current step
    c1tmp, c2tmp,        \* per-step critic losses
    c1hist, c2hist, ghist,
    ckpts,               \* step tags of summarize_performance calls
    plots,               \* number of plot_history calls
    critUpdates, genUpdates,
    lastBatch,           \* the last batch the critic was trained on
    clipIn, clipW, nClips,   \* ClipSpec: input weight, clipped weight
    yTrue, yPred, loss,  \* LossSpec: label, predicted scores, loss
    dsN, nSamples, latentDim, dataset, ix, xInput, genW, realOut, fakeOut
                         \* BatchSpec: the sample generators' inputs/outputs

vars == <<N, B, K, E, kernelsTrainable, w, pc, i, sub, c1tmp, c2tmp,
          c1hist, c2hist, ghist, ckpts, plots, critUpdates, genUpdates,
          lastBatch, clipIn, clipW, nClips, yTrue, yPred, loss,
          dsN, nSamples, latentDim, dataset, ix, xInput, genW, realOut, fakeOut>>

trainVars == <<N, B, K, E, kernelsTrainable, w, pc, i, sub, c1tmp, c2tmp,
               c1hist, c2hist, ghist, ckpts, plots, critUpdates, genUpdates,
               lastBatch>>
clipVars == <<clipIn, clipW, nClips>>
lossVars == <<yTrue, yPred, loss>>
batchVars == <<dsN, nSamples, latentDim, dataset, ix, xInput, genW,
               realOut, fakeOut>>

\* c_model also holding the generator's weights
CModelTrainableWithGen ==
    IF kernelsTrainable THEN {"conv", "dense", "bn", "gen"} ELSE {"bn", "gen"}

\* define_critic + define_wgan: trainable variables of c_model
CModelTrainable ==
    IF kernelsTrainable THEN {"conv", "dense", "bn"} ELSE {"bn"}

\* define_wgan without freezing the critic layers
GanModelTrainableUnfrozen == {"gen", "bn", "conv", "dense"}

\* define_wgan: critic layers other than BatchNormalization are frozen
GanModelTrainable == {"gen", "bn"}

\* train(): derived sizes
BatPerEpo == N \div B
NSteps == BatPerEpo * E
HalfBatchFull == B
HalfBatch == B \div 2

\* generate_real_samples / generate_fake_samples: n samples and their label
GenerateRealSamples(n) == [size |-> n, label |-> -1]
GenerateFakeSamples(n) == [size |-> n, label |-> 1]

RECURSIVE SumSeq(_)
SumSeq(s) == IF s = <<>> THEN 0 ELSE Head(s) + SumSeq(Tail(s))

\* numpy mean, as an unreduced fraction
Mean(s) == [num |-> SumSeq(s), den |-> Len(s)]

TrainInit ==
    /\ N \in 1..MaxN
    /\ B \in BatchSizes
    /\ K \in 1..MaxK
    /\ E \in 1..MaxE
    /\ kernelsTrainable \in BOOLEAN
    /\ \E cv \in InitConv, dv \in InitDense :
         w = [p \in Params |-> CASE p = "conv" -> cv
                                 [] p = "dense" -> dv
                                 [] p = "bn" -> 0
                                 [] p = "gen" -> 0]
    /\ pc = "loop"
    /\ i = 0
    /\ sub = 0
    /\ c1tmp = <<>>
    /\ c2tmp = <<>>
    /\ c1hist = <<>>
    /\ c2hist = <<>>
    /\ ghist = <<>>
    /\ ckpts = <<>>
    /\ plots = 0
    /\ critUpdates = 0
    /\ genUpdates = 0
    /\ lastBatch = [size |-> 0, label |-> 0]

ClipIdle == clipIn = 0 /\ clipW = 0 /\ nClips = 0
LossIdle == yTrue = -1 /\ yPred = <<0>> /\ loss = [num |-> 0, den |-> 0]
NoBatch == [X |-> <<>>, y |-> <<>>]
BatchIdle ==
    /\ dsN = 1 /\ nSamples = 1 /\ latentDim = 1
    /\ dataset = <<0>> /\ ix = <<0>> /\ xInput = <<0>> /\ genW = 1
    /\ realOut = NoBatch /\ fakeOut = NoBatch

Config == <<N, B, K, E, kernelsTrainable>>

\* for i in range(n_steps): start of an iteration
LoopHead ==
    /\ pc = "loop"
    /\ i < NSteps
    /\ pc' = "crit"
    /\ sub' = 0
    /\ c1tmp' = <<>>
    /\ c2tmp' = <<>>
    /\ UNCHANGED <<Config, w, i, c1hist, c2hist, ghist, ckpts, plots,
                   critUpdates, genUpdates, lastBatch>>

\* loop exhausted: plot_history(c1_hist, c2_hist, g_hist)
LoopExit ==
    /\ pc = "loop"
    /\ i >= NSteps
    /\ plots' = plots + 1
    /\ pc' = "done"
    /\ UNCHANGED <<Config, w, i, sub, c1tmp, c2tmp, c1hist, c2hist, ghist,
                   ckpts, critUpdates, genUpdates, lastBatch>>

\* critic sub-step, first half: train on a real half batch
CriticReal ==
    /\ pc = "crit"
    /\ sub < K
    /\ \E d \in [CModelTrainable -> Deltas] : w' = TrainOnBatch(w, CModelTrainable, d)
    /\ lastBatch' = GenerateRealSamples(HalfBatch)
    /\ critUpdates' = critUpdates + 1
    /\ c1tmp' = Append(c1tmp, critUpdates + 1)
    /\ pc' = "fake"
    /\ UNCHANGED <<Config, i, sub, c2tmp, c1hist, c2hist, ghist, ckpts,
                   plots, genUpdates>>

\* critic sub-step, second half: train on a fake half batch
CriticFake ==
    /\ pc = "fake"
    /\ \E d \in [CModelTrainable -> Deltas] : w' = TrainOnBatch(w, CModelTrainable, d)
    /\ lastBatch' = GenerateFakeSamples(HalfBatch)
    /\ critUpdates' = critUpdates + 1
    /\ c2tmp' = Append(c2tmp, critUpdates + 1)
    /\ sub' = sub + 1
    /\ pc' = "crit"
    /\ UNCHANGED <<Config, i, c1tmp, c1hist, c2hist, ghist, ckpts,
                   plots, genUpdates>>

\* generator step that does not record the generator loss
GenStepNoRecord ==
    /\ pc = "crit"
    /\ sub >= K
    /\ c1hist' = Append(c1hist, Mean(c1tmp))
    /\ c2hist' = Append(c2hist, Mean(c2tmp))
    /\ \E d \in [GanModelTrainable -> Deltas] : w' = TrainOnBatch(w, GanModelTrainable, d)
    /\ genUpdates' = genUpdates + 1
    /\ ghist' = ghist
    /\ pc' = "ckpt"
    /\ UNCHANGED <<Config, i, sub, c1tmp, c2tmp, ckpts, plots,
                   critUpdates, lastBatch>>

\* store critic loss means, generator update through gan_model
GenStep ==
    /\ pc = "crit"
    /\ sub >= K
    /\ c1hist' = Append(c1hist, Mean(c1tmp))
    /\ c2hist' = Append(c2hist, Mean(c2tmp))
    /\ \E d \in [GanModelTrainable -> Deltas] : w' = TrainOnBatch(w, GanModelTrainable, d)
    /\ genUpdates' = genUpdates + 1
    /\ ghist' = Append(ghist, genUpdates + 1)
    /\ pc' = "ckpt"
    /\ UNCHANGED <<Config, i, sub, c1tmp, c2tmp, ckpts, plots,
                   critUpdates, lastBatch>>

\* end of iteration: summarize_performance at epoch boundaries
EndStep ==
    /\ pc = "ckpt"
    /\ ckpts' = IF (i + 1) % BatPerEpo = 0 THEN Append(ckpts, i + 1)
                                             ELSE ckpts
    /\ i' = i + 1
    /\ pc' = "loop"
    /\ UNCHANGED <<Config, w, sub, c1tmp, c2tmp, c1hist, c2hist, ghist,
                   plots, critUpdates, genUpdates, lastBatch>>

Init == TrainInit /\ ClipIdle /\ LossIdle /\ BatchIdle

Next ==
    \/ LoopHead
    \/ LoopExit
    \/ CriticReal
    \/ CriticFake
    \/ GenStep
    \/ EndStep

Spec == Init /\ [][Next /\ UNCHANGED <<clipVars, lossVars, batchVars>>]_vars

(***************************************************************************)
(* ClipConstraint.__call__ applied to a single weight value.               *)
(***************************************************************************)
MaxW == 50
WeightVals == -MaxW..MaxW
MaxClips == 2

ClipInit ==
    /\ clipIn \in WeightVals
    /\ clipW = clipIn
    /\ nClips = 0

\* the constraint applied to the current value of the weight
ApplyClip ==
    /\ nClips < MaxClips
    /\ clipW' = ClipConstraint(clipW, ClipValue)
    /\ nClips' = nClips + 1
    /\ UNCHANGED clipIn

TrainIdle ==
    /\ N = 1 /\ B = 2 /\ K = 1 /\ E = 1 /\ kernelsTrainable = TRUE
    /\ w = [p \in Params |-> 0]
    /\ pc = "done" /\ i = 0 /\ sub = 0
    /\ c1tmp = <<>> /\ c2tmp = <<>> /\ c1hist = <<>> /\ c2hist = <<>>
    /\ ghist = <<>> /\ ckpts = <<>> /\ plots = 0
    /\ critUpdates = 0 /\ genUpdates = 0
    /\ lastBatch = [size |-> 0, label |-> 0]

ClipSpecInit == TrainIdle /\ ClipInit /\ LossIdle /\ BatchIdle

ClipNext == ApplyClip /\ UNCHANGED <<trainVars, lossVars, batchVars>>

ClipSpec == ClipSpecInit /\ [][ClipNext]_vars

(***************************************************************************)
(* wasserstein_loss on a vector of predicted scores with uniform labels.   *)
(***************************************************************************)
MaxLen == 3
PredVals == -2..2
Labels == {-1, 1}

\* loss that ignores the labels
wasserstein_loss_unsigned(y_true, y_pred) == Mean(y_pred)

\* wasserstein_loss: backend.mean(y_true * y_pred)
wasserstein_loss(y_true, y_pred) ==
    Mean([k \in 1..Len(y_pred) |-> y_true[k] * y_pred[k]])

NoLoss == [num |-> 0, den |-> 0]

LossInit ==
    /\ yTrue \in Labels
    /\ yPred \in UNION {[1..n -> PredVals] : n \in 1..MaxLen}
    /\ loss = NoLoss

\* compile(loss=wasserstein_loss): the loss on a batch labelled yTrue
ComputeLoss ==
    /\ loss = NoLoss
    /\ loss' = wasserstein_loss([k \in 1..Len(yPred) |-> yTrue], yPred)
    /\ UNCHANGED <<yTrue, yPred>>

LossSpecInit == TrainIdle /\ ClipIdle /\ LossInit /\ BatchIdle

LossNext == ComputeLoss /\ UNCHANGED <<trainVars, clipVars, batchVars>>

LossSpec == LossSpecInit /\ [][LossNext]_vars

(***************************************************************************)
(* Properties.                                                             *)
(***************************************************************************)
InClip(v) == -ClipValue <= v /\ v <= ClipValue

\* C1: once the critic optimizer has updated, every Critic kernel (the
\* Conv2D kernels and the final Dense(1) kernel) lies in [-c, c].
C1_ClipInvariant ==
    critUpdates > 0 => (InClip(w["conv"]) /\ InClip(w["dense"]))

\* C2: the clip result lies in [-c, c], is unchanged by a second clip, and
\* equals the input whenever the input already lies in [-c, c].
C2_ClipProps ==
    /\ [](nClips >= 1 => (InClip(clipW) /\ (InClip(clipIn) => clipW = clipIn)))
    /\ [][nClips >= 1 => clipW' = clipW]_vars

C2_Witness == nClips = 2 /\ ~InClip(clipIn)

FracEq(a, b) == a.num * b.den = b.num * a.den
Neg(f) == [num |-> -f.num, den |-> f.den]

\* C3: with all labels -1 the loss is -mean(y_pred); with all labels +1
\* it is mean(y_pred).
C3_LossSign ==
    loss # NoLoss =>
        /\ (yTrue = -1 => FracEq(loss, Neg(Mean(yPred))))
        /\ (yTrue = 1 => FracEq(loss, Mean(yPred)))

C3_Witness == loss # NoLoss /\ yTrue = -1 /\ Len(yPred) = MaxLen /\ SumSeq(yPred) # 0

IsPrefix(s, t) == Len(s) <= Len(t) /\ SubSeq(t, 1, Len(s)) = s

\* C4: after T completed training steps (at the loop head, or when done)
\* each of the three loss histories has length T, and the histories are
\* only ever appended to.
C4_HistoryLength ==
    /\ [](pc \in {"loop", "done"} =>
            Len(c1hist) = i /\ Len(c2hist) = i /\ Len(ghist) = i)
    /\ [][IsPrefix(c1hist, c1hist') /\ IsPrefix(c2hist, c2hist')
          /\ IsPrefix(ghist, ghist')]_vars

C4_Witness == pc = "loop" /\ i >= 2

RECURSIVE MultiplesUpTo(_, _)
MultiplesUpTo(n, m) ==
    IF n = 0 THEN <<>>
    ELSE IF n % m = 0 THEN Append(MultiplesUpTo(n - 1, m), n)
                      ELSE MultiplesUpTo(n - 1, m)

\* C5: a checkpoint fires after completed step s iff s is a multiple of
\* steps_per_epoch; a run fires exactly E checkpoints, the last one after
\* the final step.
C5_CheckpointCadence ==
    /\ (BatPerEpo > 0 /\ pc \in {"loop", "done"}) => ckpts = MultiplesUpTo(i, BatPerEpo)
    /\ pc = "done" => (Len(ckpts) = E /\ ckpts[Len(ckpts)] = NSteps)

\* C10: a dataset smaller than the batch size is a fatal error before the
\* loop: train never completes normally and plots no history.
C10_SmallDatasetFatal ==
    N < B => (pc # "done" /\ plots = 0)

\* C6: every critic update trains on a half batch of size B/2, a real one
\* first and then a fake one, while fewer than K sub-steps are done; the
\* generator update happens only after exactly K real and K fake critic
\* updates of the step; a finished run made 2*K*NSteps critic updates and
\* NSteps generator updates.
C6_StepProtocol ==
    /\ [][/\ critUpdates' # critUpdates =>
              /\ sub < K
              /\ lastBatch'.size = B \div 2
              /\ (pc = "crit" => lastBatch'.label = -1)
              /\ (pc = "fake" => lastBatch'.label = 1)
              /\ pc \in {"crit", "fake"}
          /\ genUpdates' # genUpdates =>
              /\ sub = K /\ pc = "crit"
              /\ Len(c1tmp) = K /\ Len(c2tmp) = K]_vars
    /\ [](pc = "done" => critUpdates = 2 * K * NSteps /\ genUpdates = NSteps)

C6_Witness == pc = "done" /\ K = 2 /\ NSteps >= 2

\* C8: a generator update through the composite model changes no Critic
\* kernel (conv, dense); Critic kernels change only in a critic sub-step.
C8_CompositeFrame ==
    [][/\ genUpdates' # genUpdates =>
              w'["conv"] = w["conv"] /\ w'["dense"] = w["dense"]
       /\ (w'["conv"] # w["conv"] \/ w'["dense"] # w["dense"]) =>
              pc \in {"crit", "fake"} /\ critUpdates' = critUpdates + 1]_vars

C8_Witness == genUpdates >= 1 /\ critUpdates >= 2 /\ kernelsTrainable /\ w["bn"] # 0

\* C9: Generator parameters change only in the generator step: critic
\* sub-steps and checkpoints leave them unchanged.
C9_GeneratorFrame ==
    [][w'["gen"] # w["gen"] => genUpdates' = genUpdates + 1]_vars

C9_Witness == Len(ckpts) >= 1 /\ critUpdates >= 2 /\ w["gen"] # 0


(***************************************************************************)
(* Checkpoint sink failure: summarize_performance writes the sample plot   *)
(* (pyplot.savefig) and the generator (g_model.save); neither it nor       *)
(* train() catches an exception, so a failing write leaves train() at the  *)
(* epoch boundary without finishing the step or plotting the history.      *)
(***************************************************************************)
CheckpointFail ==
    /\ pc = "ckpt"
    /\ (i + 1) % BatPerEpo = 0
    /\ pc' = "ckpt_error"
    /\ UNCHANGED <<Config, w, i, sub, c1tmp, c2tmp, c1hist, c2hist, ghist,
                   ckpts, plots, critUpdates, genUpdates, lastBatch>>

FailNext ==
    \/ Next /\ UNCHANGED <<clipVars, lossVars, batchVars>>
    \/ CheckpointFail /\ UNCHANGED <<clipVars, lossVars, batchVars>>

FailSpec == Init /\ [][FailNext]_vars

\* C11: a failing checkpoint sink is reported and training continues: the
\* run is never ended by a checkpoint failure.
C11_CheckpointFailureNonFatal ==
    pc # "ckpt_error"

(***************************************************************************)
(* The sample generators: generate_real_samples, generate_latent_points    *)
(* and generate_fake_samples on one draw of their random inputs.           *)
(***************************************************************************)
MaxDs == 2
MaxSamples == 2
MaxLatent == 2

\* image values of the dataset, standard-normal draws of randn, and
\* generator parameters, each a small representative set
ImgVals == {0, 1}
LatentVals == {0, 1}
GenWeights == {1, 2}

\* generator.predict on one latent vector: the network is a fixed
\* function of its parameters and its input
GeneratorPredict(gw, z) == gw * SumSeq(z)

\* generate_real_samples: X = dataset[ix], y = -ones((n_samples, 1))
generate_real_samples(ds, n_samples, idx) ==
    [X |-> [j \in 1..n_samples |-> ds[idx[j]]],
     y |-> [j \in 1..n_samples |-> -1]]

\* generate_latent_points: randn(latent_dim * n_samples) reshaped to
\* (n_samples, latent_dim), row-major
generate_latent_points(latent_dim, n_samples, flat) ==
    [j \in 1..n_samples |->
        [k \in 1..latent_dim |-> flat[(j - 1) * latent_dim + k]]]

\* generate_fake_samples with the labels of real samples
generate_fake_samples_neg(gw, latent_dim, n_samples, flat) ==
    LET x_input == generate_latent_points(latent_dim, n_samples, flat)
    IN [X |-> [j \in 1..n_samples |-> GeneratorPredict(gw, x_input[j])],
        y |-> [j \in 1..n_samples |-> -1]]

\* generate_fake_samples: X = generator.predict(x_input), y = ones
generate_fake_samples(gw, latent_dim, n_samples, flat) ==
    LET x_input == generate_latent_points(latent_dim, n_samples, flat)
    IN [X |-> [j \in 1..n_samples |-> GeneratorPredict(gw, x_input[j])],
        y |-> [j \in 1..n_samples |-> 1]]

BatchInit ==
    /\ dsN \in 1..MaxDs
    /\ nSamples \in 1..MaxSamples
    /\ latentDim \in 1..MaxLatent
    /\ dataset \in [0..(dsN - 1) -> ImgVals]
    \* randint(0, dataset.shape[0], n_samples): indices in [0, N)
    /\ ix \in [1..nSamples -> 0..(dsN - 1)]
    \* randn(latent_dim * n_samples)
    /\ xInput \in [1..(latentDim * nSamples) -> LatentVals]
    /\ genW \in GenWeights
    /\ realOut = NoBatch
    /\ fakeOut = NoBatch

\* one call of each sample generator on the drawn inputs
SampleBatches ==
    /\ realOut = NoBatch
    /\ realOut' = generate_real_samples(dataset, nSamples, ix)
    /\ fakeOut' = generate_fake_samples(genW, latentDim, nSamples, xInput)
    /\ UNCHANGED <<dsN, nSamples, latentDim, dataset, ix, xInput, genW>>

BatchSpecInit == TrainIdle /\ ClipIdle /\ LossIdle /\ BatchInit

BatchNext == SampleBatches /\ UNCHANGED <<trainVars, clipVars, lossVars>>

BatchSpec == BatchSpecInit /\ [][BatchNext]_vars

\* C12: generate_real_samples(dataset, n) returns n images, each equal to
\* dataset[i] for some i in [0, N), all labelled -1; generate_fake_samples
\* returns n images, each the generator's output on some latent vector of
\* dimension L, all labelled +1.
C12_BatchComposition ==
    realOut # NoBatch =>
        /\ DOMAIN realOut.X = 1..nSamples
        /\ \A j \in 1..nSamples :
              /\ realOut.y[j] = -1
              /\ \E k \in 0..(dsN - 1) : realOut.X[j] = dataset[k]
        /\ DOMAIN fakeOut.X = 1..nSamples
        /\ \A j \in 1..nSamples :
              /\ fakeOut.y[j] = 1
              /\ \E z \in [1..latentDim -> LatentVals] :
                    fakeOut.X[j] = GeneratorPredict(genW, z)

C12_Witness ==
    /\ realOut # NoBatch
    /\ nSamples = 2 /\ latentDim = 2 /\ dsN = 2
    /\ realOut.X[1] # realOut.X[2]
    /\ fakeOut.X[1] # fakeOut.X[2]

\* C7: train runs its fixed number of iterations with no early stop: every
\* reachable state is either still inside the loop or DONE after exactly
\* NSteps iterations with the loss history plotted exactly once.
C7_NoEarlyStop ==
    \/ pc \in {"loop", "crit", "fake", "ckpt"}
    \/ pc = "done" /\ i = NSteps /\ plots = 1

====
